---------------------------- MODULE Spec2Model ----------------------------
(***************************************************************************)
(* A model of honeybee/radiance/recipe/threephase.py: the life cycle of an *)
(* HBThreePhaseAnalysisRecipe (construction through __init__ or one of the *)
(* two factories, writeToFile, run, results), the batch script that        *)
(* writeToFile assembles, and the files the recipe leaves on disk.         *)
(*                                                                         *)
(* Paths are sequences of components (os.path.join concatenates them,      *)
(* os.path.split cuts the last one off); a script is a sequence of lines,  *)
(* each a record naming the program, its file arguments, the file it       *)
(* writes and its parameters.                                              *)
(***************************************************************************)
EXTENDS Naturals, Sequences, FiniteSets, TLC

(***************************************************************************)
(* Bounds of the model.                                                    *)
(***************************************************************************)
\* run(debug=True) appends one pause line per call; calls are explored
\* until the script holds this many.
MaxPause == 1

(***************************************************************************)
(* Python values that reach the constructor's hbObjects and                *)
(* reuseDaylightMtx parameters: None, a bool, or a list of scene objects.  *)
(***************************************************************************)
PyNone == [tag |-> "None", b |-> FALSE, items |-> <<>>]
PyBool(v) == [tag |-> "bool", b |-> v, items |-> <<>>]
PyList(s) == [tag |-> "list", b |-> FALSE, items |-> s]

\* A scene object: its material's name and, when the material is a BSDF, the
\* material's xmlfile attribute ("" stands for a material without one).
NoAttr == ""
Wall == [name |-> "wall", xmlfile |-> NoAttr]
GlzA == [name |-> "glzA", xmlfile |-> "klemsA.xml"]
GlzB == [name |-> "glzB", xmlfile |-> "klemsB.xml"]

\* The constructor arguments explored: reuseDaylightMtx (R), hbObjects (H),
\* subFolder (S) and the sky density (d).  The scenes hold no object at all
\* (the default, None), zero, one and two BSDF objects.
CtorArgs ==
    { [R |-> PyBool(TRUE), H |-> PyNone, S |-> "threephase", d |-> 1],
      [R |-> PyBool(TRUE), H |-> PyList(<<Wall>>), S |-> "threephase", d |-> 1],
      [R |-> PyBool(FALSE), H |-> PyList(<<Wall, GlzA>>), S |-> "tp2", d |-> 2],
      [R |-> PyBool(TRUE), H |-> PyList(<<GlzB, Wall, GlzA>>), S |-> "threephase",
       d |-> 1] }

\* Weather file names as (stem, extension).
EpwFiles == { <<"weather", ".epw">>, <<"weather", ".EPW">>, <<"weather", ".wea">> }

TargetFolders == { <<"c:", "ladybug">> }

\* The project names explored: an ordinary one, and one that is also the
\* stem of a file writeToFile names itself.
ProjectNames == { <<"room">>, <<"glazingI">> }

(***************************************************************************)
(* os.path                                                                 *)
(***************************************************************************)
NoPath == <<>>
Drives == {"c:", "d:"}

\* os.path.join(a, b): b appended to a, unless b starts at a drive, which
\* discards a.
Join(a, b) ==
    IF Len(b) > 0 /\ b[1] \in Drives THEN b ELSE a \o b

\* os.path.split(p): (head, tail), tail the last component.
Split(p) ==
    IF Len(p) = 0 THEN <<NoPath, NoPath>>
    ELSE << SubSeq(p, 1, Len(p) - 1), <<p[Len(p)]>> >>

\* os.path.splitdrive(p): (drive, rest).
Splitdrive(p) ==
    IF Len(p) > 0 /\ p[1] \in Drives
    THEN << p[1], Tail(p) >>
    ELSE << "", p >>

\* projectName + ".ext": the suffix lands on the last component.
AddExt(p, ext) ==
    IF Len(p) = 0 THEN <<ext>>
    ELSE [p EXCEPT ![Len(p)] = @ \o ext]

\* str.lower() of a file extension.
Lower(ext) ==
    CASE ext = ".EPW" -> ".epw"
      [] ext = ".Epw" -> ".epw"
      [] OTHER -> ext


(***************************************************************************)
(* The recipe and its surroundings.                                        *)
(***************************************************************************)
VARIABLES
    phase,              \* "none": no recipe yet; "built": constructed;
                        \* "failed": construction raised
    hbObjects,          \* self.hbObjects
    reuseDaylightMtx,   \* self.reuseDaylightMtx
    radianceParameters, \* the values of self.__radianceParameters
    subFolder,          \* self.subFolder
    skyDensity,         \* self.skyMatrix.skyDensity
    batchFile,          \* self.__batchFile (NoPath stands for None)
    isCalculated,       \* self.isCalculated
    resultsFile,        \* self.resultsFile
    loaderFiles,        \* self.loader.resultFiles
    fs,                 \* the file system: path -> content (a script's lines)
    lastCall,           \* the most recent call and how it ended
    lastWritten,        \* history: batch file path -> the script content the
                        \* latest successful writeToFile wrote there
    hasWritten,         \* history: a writeToFile call has completed
    hasRun              \* history: a run call has completed

fields == << hbObjects, reuseDaylightMtx, radianceParameters, subFolder,
             skyDensity, batchFile, isCalculated, resultsFile, loaderFiles >>
vars == << phase, hbObjects, reuseDaylightMtx, radianceParameters, subFolder,
           skyDensity, batchFile, isCalculated, resultsFile, loaderFiles, fs,
           lastCall, lastWritten, hasWritten, hasRun >>
history == << lastWritten, hasWritten, hasRun >>

NoKw == [reuseDaylightMtx |-> PyNone, hbObjects |-> PyNone, subFolder |-> ""]
Kw(R, H, S) == [reuseDaylightMtx |-> R, hbObjects |-> H, subFolder |-> S]

\* A call record: the operation, the exception it raised ("" for none), its
\* arguments, whether it started the external process, that process's exit
\* code ("" stands for no process having returned), what the call returned,
\* for writeToFile, whether an earlier call had written the same script
\* file, and for fromPointsFile, the points file it was given and the point
\* and vector groups it handed on.
Call(op, raised) ==
    [op |-> op, raised |-> raised, kw |-> NoKw, target |-> NoPath,
     project |-> NoPath, debug |-> FALSE, started |-> FALSE, exit |-> "",
     ret |-> <<>>, again |-> FALSE, file |-> <<>>, pointGroups |-> <<>>,
     vectorGroups |-> <<>>]

(***************************************************************************)
(* Parameter instances                                                     *)
(***************************************************************************)
\* The values of a parameter instance on which nothing has been set; c and
\* invert are the attributes a command line carries besides them.
NoPar == [I |-> FALSE, aa |-> "", ab |-> 0, ad |-> 0, lw |-> "", c |-> 0,
          invert |-> FALSE]

\* self.__radianceParameters = RfluxmtxParameters() and the five
\* assignments that follow it in __init__.
RadianceParametersInit ==
    [NoPar EXCEPT !.I = TRUE, !.aa = "0.1", !.ad = 4096, !.ab = 6,
                  !.lw = "0.001"]

\* The parameter instances writeToFile can reach: the recipe's own and the
\* one each of its two Rfluxmtx commands holds.
ParamIds == { "recipe", "rflux", "rflux2" }

\* An Rfluxmtx whose parameters, set to None, fall back to the instance the
\* recipe holds.
ParametersOf_Shared(cmd) == "recipe"

\* cmd.rfluxmtxParameters = None: the instance the command holds afterwards
\* is a new one of its own.
ParametersOf(cmd) == cmd

\* The instances as writeToFile finds them: the recipe's holds its values,
\* a new one holds none.
HeapAtEntry(recipeParams) ==
    [id \in ParamIds |-> IF id = "recipe" THEN recipeParams ELSE NoPar]

\* rflux.rfluxmtxParameters.irradianceCalc = True and the four assignments
\* that follow it
ViewAssign(heap) ==
    [heap EXCEPT ![ParametersOf("rflux")] =
        [@ EXCEPT !.I = TRUE, !.aa = "0.1", !.ab = 10, !.ad = 65536,
                  !.lw = "1E-5"]]

\* rflux2.rfluxmtxParameters.ambientAccuracy = 0.1 and the three assignments
\* that follow it
DaylightAssign(heap) ==
    [heap EXCEPT ![ParametersOf("rflux2")] =
        [@ EXCEPT !.aa = "0.1", !.ad = 1024, !.ab = 2, !.lw = "1E-7"]]

(***************************************************************************)
(* Construction                                                            *)
(***************************************************************************)
\* HBAnnualAnalysisRecipe.__init__(self, skyMtx, analysisGrids, hbObjects,
\* subFolder): the base class keeps what it is given and starts not calculated.
AnnualInit(skyMtx, hbObjectsArg, subFolderArg) ==
    [skyDensity |-> skyMtx, hbObjects |-> hbObjectsArg,
     subFolder |-> subFolderArg, isCalculated |-> FALSE]

\* HBThreePhaseAnalysisRecipe.__init__(self, skyMtx, analysisGrids,
\*     reuseDaylightMtx, hbObjects, subFolder)
RecipeInit(skyMtx, reuseArg, hbObjectsArg, subFolderArg) ==
    LET base == AnnualInit(skyMtx, hbObjectsArg, subFolderArg)
    IN  [skyDensity |-> base.skyDensity,
         hbObjects |-> base.hbObjects,
         subFolder |-> base.subFolder,
         isCalculated |-> base.isCalculated,
         reuseDaylightMtx |-> reuseArg,
         radianceParameters |-> RadianceParametersInit,
         batchFile |-> NoPath,
         resultsFile |-> <<>>,
         \* LoadAnnualsResults(self.resultsFile)
         loaderFiles |-> <<>>]

NoRecipe == RecipeInit(1, PyNone, PyNone, "")

\* fromWeatherFilePointsAndVectors(cls, epwFile, pointGroups, vectorGroups,
\*     skyDensity, reuseDaylightMtx, hbObjects, subFolder): the last line is
\*     cls(skyMtx, analysisGrids, hbObjects, reuseDaylightMtx, subFolder)
FromWeatherResult(epwFile, density, reuseArg, hbObjectsArg, subFolderArg) ==
    IF Lower(epwFile[2]) # ".epw"
    THEN [raised |-> "AssertionError", recipe |-> NoRecipe]
    ELSE [raised |-> "",
          recipe |-> RecipeInit(density, hbObjectsArg, reuseArg, subFolderArg)]

\* A line of a points file, as its characters: six one-digit numbers and
\* the newline.
PointsLine(x, y, z, dx, dy, dz) ==
    << x, " ", y, " ", z, " ", dx, " ", dy, " ", dz, "\n" >>

\* The points files explored, each a sequence of lines: an empty file, one
\* and two well-formed lines, and a line with too few numbers.
PointsFiles ==
    { <<>>,
      << PointsLine("1", "2", "3", "0", "0", "1") >>,
      << PointsLine("1", "2", "3", "0", "0", "1"),
         PointsLine("4", "5", "6", "0", "1", "0") >>,
      << << "1", " ", "2", "\n" >> >> }

Whitespace == { " ", "\n" }

\* str.split(): the maximal runs of characters that are not whitespace.
RECURSIVE StrSplit(_)
StrSplit(str) ==
    IF str = <<>> THEN <<>>
    ELSE IF Head(str) \in Whitespace THEN StrSplit(Tail(str))
    ELSE LET rest == StrSplit(Tail(str))
         IN  IF Len(str) > 1 /\ str[2] \notin Whitespace
             THEN << <<Head(str)>> \o Head(rest) >> \o Tail(rest)
             ELSE << <<Head(str)>> >> \o rest

\* The slices s[:k] and s[k:].
SliceTo(s, k) == SubSeq(s, 1, IF Len(s) < k THEN Len(s) ELSE k)
SliceFrom(s, k) == SubSeq(s, k + 1, Len(s))

\* The k-th call of inf.readline(): the k-th line, the empty string at the
\* end of the file.
Readline(file, k) == IF k <= Len(file) THEN file[k] ELSE <<>>

\* tuple(line.split()[:3] for line in inf.readline()): `line` runs over the
\* characters of the first line of the file.
PointGroups(file) ==
    [i \in 1..Len(Readline(file, 1)) |->
        SliceTo(StrSplit(<< Readline(file, 1)[i] >>), 3)]

\* tuple(line.split()[3:] for line in inf.readline()): `line` runs over the
\* characters of the second line of the file.
VectorGroups(file) ==
    [i \in 1..Len(Readline(file, 2)) |->
        SliceFrom(StrSplit(<< Readline(file, 2)[i] >>), 3)]

\* fromPointsFile(cls, epwFile, pointsFile, skyDensity, reuseDaylightMtx,
\*     hbObjects, subFolder): reads the points, then
\*     cls.fromWeatherFilePointsAndVectors(epwFile, pointGroups, vectorGroups,
\*         skyDensity, hbObjects, reuseDaylightMtx, subFolder)
FromPointsResult(epwFile, readable, density, reuseArg, hbObjectsArg, subFolderArg) ==
    IF ~readable
    THEN [raised |-> "ValueError", recipe |-> NoRecipe]
    ELSE FromWeatherResult(epwFile, density, hbObjectsArg, reuseArg, subFolderArg)

\* The recipe `r` becomes the state.
Install(r) ==
    /\ hbObjects' = r.hbObjects
    /\ reuseDaylightMtx' = r.reuseDaylightMtx
    /\ radianceParameters' = r.radianceParameters
    /\ subFolder' = r.subFolder
    /\ skyDensity' = r.skyDensity
    /\ batchFile' = r.batchFile
    /\ isCalculated' = r.isCalculated
    /\ resultsFile' = r.resultsFile
    /\ loaderFiles' = r.loaderFiles

\* `file` is the points file of the call (none: the empty file), `groups`
\* the point and vector groups read from it.
Constructed(op, res, R, H, S, file, groups) ==
    /\ phase' = IF res.raised = "" THEN "built" ELSE "failed"
    /\ Install(res.recipe)
    /\ lastCall' = [Call(op, res.raised) EXCEPT
                      !.kw = Kw(R, H, S), !.file = file,
                      !.pointGroups = groups[1], !.vectorGroups = groups[2]]
    /\ UNCHANGED << fs, history >>

Construct ==
    /\ phase = "none"
    /\ \E a \in CtorArgs :
         Constructed("__init__",
                     [raised |-> "", recipe |-> RecipeInit(a.d, a.R, a.H, a.S)],
                     a.R, a.H, a.S, <<>>, << <<>>, <<>> >>)

FromWeatherFilePointsAndVectors ==
    /\ phase = "none"
    /\ \E e \in EpwFiles, a \in CtorArgs :
         Constructed("fromWeatherFilePointsAndVectors",
                     FromWeatherResult(e, a.d, a.R, a.H, a.S), a.R, a.H, a.S,
                     <<>>, << <<>>, <<>> >>)

FromPointsFile ==
    /\ phase = "none"
    /\ \E e \in EpwFiles, readable \in BOOLEAN, a \in CtorArgs,
          file \in PointsFiles :
         Constructed("fromPointsFile",
                     FromPointsResult(e, readable, a.d, a.R, a.H, a.S),
                     a.R, a.H, a.S, file,
                     IF readable
                     THEN << PointGroups(file), VectorGroups(file) >>
                     ELSE << <<>>, <<>> >>)

Init ==
    /\ phase = "none"
    /\ hbObjects = NoRecipe.hbObjects
    /\ reuseDaylightMtx = NoRecipe.reuseDaylightMtx
    /\ radianceParameters = NoRecipe.radianceParameters
    /\ subFolder = NoRecipe.subFolder
    /\ skyDensity = NoRecipe.skyDensity
    /\ batchFile = NoRecipe.batchFile
    /\ isCalculated = NoRecipe.isCalculated
    /\ resultsFile = NoRecipe.resultsFile
    /\ loaderFiles = NoRecipe.loaderFiles
    /\ fs = << >>
    /\ lastCall = Call("", "")
    /\ lastWritten = << >>
    /\ hasWritten = FALSE
    /\ hasRun = FALSE

(***************************************************************************)
(* The batch script                                                        *)
(***************************************************************************)
\* One line of a script.
Line(prog, sender, receiver, points, inputs, out, par) ==
    [prog |-> prog, sender |-> sender, receiver |-> receiver, points |-> points,
     inputs |-> inputs, out |-> out, par |-> par]

Plain(prog, inputs) == Line(prog, NoPath, NoPath, NoPath, inputs, NoPath, NoPar)

\* "\n".join(batchFileLines): every element is a string of one or more lines.
RECURSIVE JoinLines(_)
JoinLines(elems) ==
    IF elems = <<>> THEN <<>> ELSE Head(elems) \o JoinLines(Tail(elems))

\* helper.getRadiancePathLines(): the lines that set RAYPATH and PATH.
GetRadiancePathLines == << Plain("SET RAYPATH", <<>>), Plain("PATH", <<>>) >>

\* A dirLine that changes into the project's folder, not the sub-folder.
DirLine_Parent(path) ==
    << Plain(Splitdrive(path)[1], <<>>), Plain("cd", <<Split(path)[1]>>) >>

\* dirLine = "%s\ncd %s" % (os.path.splitdrive(_path)[0], _path)
DirLine(path) == << Plain(Splitdrive(path)[1], <<>>), Plain("cd", <<path>>) >>

HasXml(f) == f.xmlfile # NoAttr

\* tuple(f for f in self.hbObjects if hasattr(f.radianceMaterial, 'xmlfile'))
BsdfObjects(hb) == SelectSeq(hb.items, HasXml)

\* ...[0]: the exception the lookup raises ("" when it finds an object).
LookupRaises(hb) ==
    IF hb.tag # "list" THEN "TypeError"
    ELSE IF BsdfObjects(hb) = <<>> THEN "IndexError"
    ELSE ""

\* Rfluxmtx.addControlParameters(glssPath, ...): the receiver file it writes.
ReceiverFile(glssPath) == AddExt(glssPath, "_m")

\* SkyMatrix.execute(_path): the sky-vector file it generates.
SkyVectorFile(path) == Join(path, <<"skymtx.smx">>)

\* 'r{}'.format(self.skyMatrix.skyDensity)
SkyType(density) ==
    CASE density = 1 -> "r1"
      [] density = 2 -> "r2"
      [] OTHER -> "r4"

\* The names writeToFile computes for target folder, project name and
\* sub-folder.
Names(targetFolder, projectName, sub) ==
    LET basePath == Join(targetFolder, projectName)
        path == Join(basePath, <<sub>>)
    IN  [basePath |-> basePath,
         path |-> path,
         pointsFile |-> Join(path, AddExt(projectName, ".pts")),
         matFile |-> Join(path, AddExt(projectName, ".mat")),
         geoFile |-> Join(path, AddExt(projectName, ".rad")),
         glssPath |-> Join(path, <<"glazing.rad">>),
         glssRevPath |-> Join(path, <<"glazingI.rad">>),
         rfluxSky |-> Join(path, <<"rfluxSky.rad">>),
         batchFile |-> Join(path, AddExt(projectName, ".bat"))]

\* 3.0: xfr.toRadString()
XformLine(n) ==
    Line("xform", NoPath, NoPath, NoPath, <<n.glssPath>>, n.glssRevPath,
         [NoPar EXCEPT !.invert = TRUE])

\* The instances when rflux is rendered, and when rflux2 is.
HeapAtView == ViewAssign(HeapAtEntry(radianceParameters))
HeapAtDaylight == DaylightAssign(HeapAtView)

\* 3.2: rflux.toRadString(), the view matrix
ViewLine(n, projectName) ==
    Line("rfluxmtx", <<"-">>, ReceiverFile(n.glssPath), n.pointsFile,
         <<n.matFile, n.geoFile, <<"glazing.rad">> >>,
         AddExt(projectName, ".vmx"),
         HeapAtView[ParametersOf("rflux")])

\* 3.3: rflux2.toRadString(), the daylight matrix
DaylightLine(n, projectName) ==
    Line("rfluxmtx", <<"glazingI.rad_m">>, n.rfluxSky, NoPath,
         <<n.matFile, n.geoFile, <<"glazing.rad">> >>,
         AddExt(projectName, ".dmx"),
         [HeapAtDaylight[ParametersOf("rflux2")] EXCEPT !.c = 1000])

\* 4: dct.toRadString(), the matrix calculation
CombineLine(n, projectName, tMatrix) ==
    Line("dctimestep", NoPath, NoPath, NoPath,
         << <<tMatrix>>, AddExt(projectName, ".vmx"),
            AddExt(projectName, ".dmx"), SkyVectorFile(n.path) >>,
         <<"illuminance.ill">>, NoPar)

\* A batchFileLines that lives on the recipe and keeps the lines of the
\* call before: `a` is (targetFolder, projectName).
BatchFileLinesInit_Kept(a) ==
    LET old == Names(a[1], a[2], subFolder).batchFile
    IN  IF old \in DOMAIN lastWritten THEN << lastWritten[old] >> ELSE <<>>

\* batchFileLines = []
BatchFileLinesInit(a) == <<>>

\* A writeToFile that appends the daylight-matrix stage before the
\* view-matrix stage.
BatchFileLines_Reordered(targetFolder, projectName, sub, hb) ==
    LET n == Names(targetFolder, projectName, sub)
        bsdfGlazing == BsdfObjects(hb)[1]
    IN  BatchFileLinesInit(<<targetFolder, projectName>>) \o
        << GetRadiancePathLines,
           DirLine(n.path),
           <<XformLine(n)>>,
           <<DaylightLine(n, projectName)>>,
           <<ViewLine(n, projectName)>>,
           <<CombineLine(n, projectName, bsdfGlazing.xmlfile)>> >>

\* A writeToFile that appends the combination stage before the two matrix
\* stages.
BatchFileLines_CombineFirst(targetFolder, projectName, sub, hb) ==
    LET n == Names(targetFolder, projectName, sub)
        bsdfGlazing == BsdfObjects(hb)[1]
    IN  BatchFileLinesInit(<<targetFolder, projectName>>) \o
        << GetRadiancePathLines,
           DirLine(n.path),
           <<XformLine(n)>>,
           <<CombineLine(n, projectName, bsdfGlazing.xmlfile)>>,
           <<ViewLine(n, projectName)>>,
           <<DaylightLine(n, projectName)>> >>

\* The elements writeToFile appends to batchFileLines, in the order of its
\* append calls.
BatchFileLines(targetFolder, projectName, sub, hb) ==
    LET n == Names(targetFolder, projectName, sub)
        bsdfGlazing == BsdfObjects(hb)[1]
    IN  BatchFileLinesInit(<<targetFolder, projectName>>) \o
        << GetRadiancePathLines,
           DirLine(n.path),
           <<XformLine(n)>>,
           <<ViewLine(n, projectName)>>,
           <<DaylightLine(n, projectName)>>,
           <<CombineLine(n, projectName, bsdfGlazing.xmlfile)>> >>

(***************************************************************************)
(* writeToFile                                                             *)
(***************************************************************************)
\* The steps of writeToFile that touch the file system or can raise, in
\* program order: what each raises when it fails and the files it leaves
\* when it succeeds.  `env` names the step the environment makes fail
\* ("none": no step); the aperture lookup fails on its own account.
WriteSteps(n, hb, env) ==
    LET E(name, exc) == IF env = name THEN exc ELSE ""
    IN  << [exc |-> E("preparedir_base", "AssertionError"), files |-> {n.basePath}],
           [exc |-> E("preparedir_path", "AssertionError"), files |-> {n.path}],
           [exc |-> E("writePointsToFile", "IOError"), files |-> {n.pointsFile}],
           [exc |-> E("writeHBObjectsToFile", "IOError"),
            files |-> {n.matFile, n.geoFile}],
           [exc |-> LookupRaises(hb), files |-> {}],
           [exc |-> E("radStringToFile", "IOError"), files |-> {n.glssPath}],
           [exc |-> E("skyMatrix.execute", "OSError"),
            files |-> {SkyVectorFile(n.path)}],
           [exc |-> E("addControlParameters", "IOError"),
            files |-> {ReceiverFile(n.glssPath)}],
           [exc |-> E("defaultSkyGround", "IOError"), files |-> {n.rfluxSky}],
           [exc |-> E("write", "IOError"), files |-> {n.batchFile}] >>

\* The failures explored: none, a directory that cannot be created, an
\* export that fails, a stage whose construction fails, and the script that
\* cannot be written.
WriteFailures ==
    { "none", "preparedir_path", "writeHBObjectsToFile", "skyMatrix.execute",
      "write" }

\* The first step that raises; Len(steps) + 1 when none does.
FirstFailure(steps) ==
    LET bad == { i \in 1..Len(steps) : steps[i].exc # "" }
    IN  IF bad = {} THEN Len(steps) + 1
        ELSE CHOOSE i \in bad : \A j \in bad : i <= j

\* What a data file written by writeToFile holds: only the sky definition
\* depends on anything the model tracks.
DataContent(n, p, density) ==
    IF p = n.rfluxSky THEN << Plain(SkyType(density), <<>>) >> ELSE <<>>

\* self.write(batchFile, text): the file is replaced by the text.
WriteFile(files, p, content) ==
    [q \in DOMAIN files \cup {p} |-> IF q = p THEN content ELSE files[q]]

\* A writeToFile that records the script's path before the steps that can
\* raise.
RecordBatchFile_Early(ok, old, new) == new

\* A writeToFile that forgets the recorded script when a step raises.
RecordBatchFile_Cleared(ok, old, new) == IF ok THEN new ELSE NoPath

\* self.__batchFile = batchFile is the last assignment of writeToFile: it is
\* reached only when no step before it raised (`ok`).
RecordBatchFile(ok, old, new) == IF ok THEN new ELSE old

\* writeToFile(targetFolder, projectName) with step `env` failing.
WriteOutcome(targetFolder, projectName, env) ==
    LET n == Names(targetFolder, projectName, subFolder)
        steps == WriteSteps(n, hbObjects, env)
        k == FirstFailure(steps)
        ok == k > Len(steps)
        done == UNION { steps[i].files : i \in 1..(k - 1) }
        data == done \ {n.batchFile}
        script == IF ok
                  THEN JoinLines(BatchFileLines(targetFolder, projectName,
                                                subFolder, hbObjects))
                  ELSE <<>>
        withData == [q \in DOMAIN fs \cup data |->
                        IF q \in data THEN DataContent(n, q, skyDensity)
                        ELSE fs[q]]
    IN  [raised |-> IF ok THEN "" ELSE steps[k].exc,
         ok |-> ok,
         fs |-> IF ok THEN WriteFile(withData, n.batchFile, script) ELSE withData,
         batchFile |-> RecordBatchFile(ok, batchFile, n.batchFile),
         \* the assignments to rflux's parameters come after step 7, those
         \* to rflux2's after step 9
         recipeParams |-> IF k > 9 THEN HeapAtDaylight["recipe"]
                          ELSE IF k > 7 THEN HeapAtView["recipe"]
                          ELSE radianceParameters,
         script |-> script,
         written |-> n.batchFile,
         ret |-> IF ok THEN <<n.path>> ELSE <<>>]

WriteToFile ==
    /\ phase = "built"
    /\ \E targetFolder \in TargetFolders, projectName \in ProjectNames,
          env \in WriteFailures :
         \E w \in {WriteOutcome(targetFolder, projectName, env)} :
             /\ fs' = w.fs
             /\ batchFile' = w.batchFile
             /\ radianceParameters' = w.recipeParams
             /\ lastCall' = [Call("writeToFile", w.raised) EXCEPT
                               !.target = targetFolder, !.project = projectName,
                               !.ret = w.ret,
                               !.again = w.ok /\ w.written \in DOMAIN lastWritten]
             /\ lastWritten' = IF w.ok THEN WriteFile(lastWritten, w.written, w.script)
                               ELSE lastWritten
             /\ hasWritten' = (hasWritten \/ w.ok)
             /\ UNCHANGED hasRun
             /\ UNCHANGED << phase, hbObjects, reuseDaylightMtx, subFolder,
                             skyDensity, isCalculated, resultsFile, loaderFiles >>

(***************************************************************************)
(* run                                                                     *)
(***************************************************************************)
PauseLine == Plain("pause", <<>>)

NumPauses(content) == Cardinality({ i \in 1..Len(content) : content[i] = PauseLine })

\* if debug: open(self.__batchFile, "a").write("\npause")
ScriptForRun(content, debug) ==
    IF debug THEN Append(content, PauseLine) ELSE content

\* A run() that does not look at self.__batchFile.
RunAllowed_Unchecked(bf) == TRUE

\* if self.__batchFile: ... else: raise Exception(...)
RunAllowed(bf) == bf # NoPath

\* A run() that checks the exit code.
CalculatedAfterRun_ExitChecked(exit) == exit = "0"

\* self.isCalculated = True, once subprocess.call has returned `exit`.
CalculatedAfterRun(exit) == TRUE

\* A run() that appends the result path to the list it already has.
ResultsFileAfterRun_Appended(old, bf) ==
    Append(old, Join(Split(bf)[1], <<"illuminance.ill">>))

\* [os.path.join(os.path.split(self.__batchFile)[0], "illuminance.ill")]
ResultsFileAfterRun(old, bf) ==
    << Join(Split(bf)[1], <<"illuminance.ill">>) >>

\* The directory a script changes into: the argument of its last cd line.
RECURSIVE WorkDir(_)
WorkDir(content) ==
    IF content = <<>> THEN NoPath
    ELSE IF content[Len(content)].prog = "cd"
         THEN content[Len(content)].inputs[1]
         ELSE WorkDir(SubSeq(content, 1, Len(content) - 1))

\* The lines of a script that write a file, in order.
StageLines(content) == SelectSeq(content, LAMBDA l : l.out # NoPath)

\* The files the external process leaves when the first k stages of the
\* script succeed: each stage's output, resolved against the working
\* directory.
Produced(content, k) ==
    LET st == StageLines(content)
    IN  { Join(WorkDir(content), st[i].out) : i \in 1..k }

\* The stages explored as the first to fail in a run that exits non-zero.
FailingStages == {1, 3}

\* The outcomes of subprocess.call(self.__batchFile): it raises OSError (the
\* process does not start), or the process returns: exit code 0 with every
\* stage done, or non-zero with the stages before the failing one done.
ProcessOutcomes(content) ==
    LET m == Len(StageLines(content))
    IN  { [raises |-> "OSError", exit |-> "", k |-> 0],
          [raises |-> "", exit |-> "0", k |-> m] }
        \cup { [raises |-> "", exit |-> "1", k |-> j - 1] :
                 j \in FailingStages \cap (1..m) }

\* The content of file p; a file that does not exist reads as empty.
ReadFile(files, p) == IF p \in DOMAIN files THEN files[p] ELSE <<>>

Run ==
    /\ phase = "built"
    /\ \E debug \in BOOLEAN :
         IF ~RunAllowed(batchFile)
         THEN /\ lastCall' = [Call("run", "Exception") EXCEPT !.debug = debug]
              /\ UNCHANGED << phase, fields, fs, history >>
         ELSE \E content \in {ScriptForRun(ReadFile(fs, batchFile), debug)} :
                  /\ NumPauses(content) <= MaxPause
                  /\ \E o \in ProcessOutcomes(content) :
                       \* a script file that does not exist cannot be started
                       /\ (batchFile \notin DOMAIN fs /\ ~debug) => o.raises # ""
                       /\ LET made == Produced(content, o.k)
                               returned == o.raises = ""
                           IN  /\ fs' = [q \in DOMAIN fs \cup made \cup
                                               (IF debug THEN {batchFile} ELSE {}) |->
                                           IF q = batchFile THEN content
                                           ELSE IF q \in made THEN <<>>
                                           ELSE fs[q]]
                               /\ isCalculated' =
                                    IF returned THEN CalculatedAfterRun(o.exit)
                                    ELSE isCalculated
                               /\ resultsFile' =
                                    IF returned /\ CalculatedAfterRun(o.exit)
                                    THEN ResultsFileAfterRun(resultsFile, batchFile)
                                    ELSE resultsFile
                               /\ lastCall' = [Call("run", o.raises) EXCEPT
                                                 !.debug = debug, !.started = TRUE,
                                                 !.exit = o.exit,
                                                 !.ret = IF returned THEN <<"True">>
                                                         ELSE <<>>]
                               /\ hasRun' = (hasRun \/ returned)
                               /\ UNCHANGED << phase, hbObjects, reuseDaylightMtx,
                                               radianceParameters, subFolder,
                                               skyDensity, batchFile,
                                               loaderFiles, lastWritten,
                                               hasWritten >>

(***************************************************************************)
(* results                                                                 *)
(***************************************************************************)
\* A results() whose assertion is gone.
ResultsAllowed_Unchecked(calculated) == TRUE

\* assert self.isCalculated
ResultsAllowed(calculated) == calculated

Results ==
    /\ phase = "built"
    /\ IF ~ResultsAllowed(isCalculated)
       THEN /\ lastCall' = Call("results", "AssertionError")
            /\ UNCHANGED loaderFiles
       ELSE \* self.loader.resultFiles = self.resultsFile
            \* return self.loader.results
            /\ loaderFiles' = resultsFile
            /\ lastCall' = [Call("results", "") EXCEPT !.ret = resultsFile]
    /\ UNCHANGED << phase, hbObjects, reuseDaylightMtx, radianceParameters,
                    subFolder, skyDensity, batchFile, isCalculated, resultsFile,
                    fs, history >>

Next ==
    \/ Construct
    \/ FromWeatherFilePointsAndVectors
    \/ FromPointsFile
    \/ WriteToFile
    \/ Run
    \/ Results

Spec == Init /\ [][Next]_vars

(***************************************************************************)
(* Properties                                                              *)
(***************************************************************************)
\* The directory of a path and its file name, read off the components.
DirOf(p) == SubSeq(p, 1, Len(p) - 1)
NameOf(p) == p[Len(p)]

\* C1: results() on a recipe no run() has completed on raises, returns
\* nothing and hands the loader nothing; results() returns only on a recipe
\* that is Calculated.
C1_ResultsOnlyWhenCalculated ==
    lastCall.op = "results" =>
        /\ ~hasRun => /\ lastCall.raised = "AssertionError"
                      /\ lastCall.ret = <<>>
                      /\ loaderFiles = <<>>
        /\ lastCall.raised = "" => isCalculated

\* results() has failed on a recipe whose files are written but which was
\* never run.
C1_Witness ==
    /\ lastCall.op = "results"
    /\ lastCall.raised = "AssertionError"
    /\ hasWritten
    /\ ~hasRun

\* C2: a run() step on a recipe on which no writeToFile() has completed
\* raises the recipe's own exception, does not call the external process and
\* changes neither the recipe nor the files.
C2_RunBeforeWriteFails ==
    [][ (lastCall'.op = "run" /\ ~hasWritten) =>
            /\ lastCall'.raised = "Exception"
            /\ ~lastCall'.started
            /\ batchFile' = NoPath /\ batchFile = NoPath
            /\ ~isCalculated'
            /\ resultsFile' = resultsFile
            /\ fs' = fs ]_vars

\* run() has failed after a writeToFile() that itself failed half way.
C2_Witness ==
    /\ lastCall.op = "run"
    /\ lastCall.raised = "Exception"
    /\ ~hasWritten
    /\ DOMAIN fs # {}

\* C3: the script a successful writeToFile() leaves on disk is: the
\* path-setup lines, the drive and cd lines of the output directory, then
\* exactly four lines that write a file, in the order inverted glazing,
\* view matrix, daylight matrix, illuminance; no other line writes a file.
C3_ScriptOrder ==
    (lastCall.op = "writeToFile" /\ lastCall.raised = "") =>
        LET c == fs[batchFile]
            n == Len(c)
            dir == DirOf(batchFile)
            project == lastCall.project
        IN  /\ n >= 6
            /\ \A i \in 1..(n - 6) : c[i].prog \in {"SET RAYPATH", "PATH"}
            /\ c[n - 5].prog = dir[1]
            /\ c[n - 4].prog = "cd" /\ c[n - 4].inputs = <<dir>>
            /\ \A i \in 1..(n - 4) : c[i].out = NoPath
            /\ c[n - 3].prog = "xform"
            /\ c[n - 3].out = dir \o <<"glazingI.rad">>
            /\ c[n - 2].prog = "rfluxmtx"
            /\ c[n - 2].out = <<NameOf(project) \o ".vmx">>
            /\ c[n - 1].prog = "rfluxmtx"
            /\ c[n - 1].out = <<NameOf(project) \o ".dmx">>
            /\ c[n].prog = "dctimestep"
            /\ c[n].out = <<"illuminance.ill">>

\* writeToFile() has succeeded on a scene with two BSDF objects.
C3_Witness ==
    /\ lastCall.op = "writeToFile"
    /\ lastCall.raised = ""
    /\ Len(BsdfObjects(hbObjects)) = 2
    /\ Len(fs[batchFile]) = 8

\* C4: a writeToFile() step that succeeds on a script file an earlier call
\* wrote (the same target folder, project name and scene) leaves exactly the
\* content the earlier call wrote, whatever happened to the file in between.
C4_RewriteIsIdentical ==
    [][ (lastCall'.op = "writeToFile" /\ lastCall'.raised = ""
         /\ batchFile' \in DOMAIN lastWritten) =>
            fs'[batchFile'] = lastWritten[batchFile'] ]_vars

\* writeToFile() has succeeded a second time on the same script, after a
\* debug run had appended to it and the recipe had become Calculated.
C4_Witness ==
    /\ lastCall.op = "writeToFile"
    /\ lastCall.raised = ""
    /\ lastCall.again
    /\ isCalculated
    /\ NumPauses(fs[batchFile]) = 0
    /\ \E p \in DOMAIN fs : NameOf(p) = "illuminance.ill"

\* c is w followed by pause lines only.
OnlyPausesAdded(w, c) ==
    /\ Len(c) >= Len(w)
    /\ SubSeq(c, 1, Len(w)) = w
    /\ \A i \in (Len(w) + 1)..Len(c) : c[i] = PauseLine

C6_NoScriptUnlessOneAperture ==
    (hbObjects.tag = "list" /\ Len(BsdfObjects(hbObjects)) # 1) =>
        batchFile = NoPath

\* C7: when run() has called the external process and the process has
\* returned, with whatever exit code, the recipe is Calculated and its
\* result-file list is the one path illuminance.ill in the script's directory.
C7_ReturnMarksCalculated ==
    (lastCall.op = "run" /\ lastCall.exit # "") =>
        /\ isCalculated
        /\ Len(resultsFile) = 1
        /\ DirOf(resultsFile[1]) = DirOf(batchFile)
        /\ NameOf(resultsFile[1]) = "illuminance.ill"
        /\ batchFile \in DOMAIN fs

\* run() has returned from a process that exited non-zero, on a recipe that
\* had not been Calculated before.
C7_Witness ==
    /\ lastCall.op = "run"
    /\ lastCall.exit = "1"
    /\ Cardinality({ p \in DOMAIN fs : NameOf(p) = "illuminance.ill" }) = 0
    /\ isCalculated

\* C8 as claimed: a run() step in which the process does not start, or
\* exits non-zero, does not mark the recipe Calculated.
C8_FailedRunStaysFilesWritten ==
    [][ (lastCall'.op = "run" /\ lastCall'.started
         /\ (lastCall'.raised # "" \/ lastCall'.exit # "0")) =>
            isCalculated' = isCalculated ]_vars

\* C9 as claimed: a recipe a factory returns holds the factory's hbObjects,
\* reuseDaylightMtx and subFolder arguments under the same names.
C9_FactoryArgumentsArrive ==
    (lastCall.op \in {"fromWeatherFilePointsAndVectors", "fromPointsFile"}
     /\ lastCall.raised = "") =>
        /\ hbObjects = lastCall.kw.hbObjects
        /\ reuseDaylightMtx = lastCall.kw.reuseDaylightMtx
        /\ subFolder = lastCall.kw.subFolder

\* C10: a writeToFile() step that raises leaves the recorded batch script,
\* and the script file it names, as they were; the recorded script changes
\* only in a writeToFile() step that returns, and then the script and the
\* points, material, geometry and glazing files are on disk; and a run() that
\* follows a failed call on a recipe without a successful write raises the
\* recipe's exception.
C10_FailedWriteRecordsNothing ==
    [][ /\ (lastCall'.op = "writeToFile" /\ lastCall'.raised # "") =>
              /\ batchFile' = batchFile
              /\ batchFile # NoPath => fs'[batchFile] = fs[batchFile]
              /\ hasWritten' = hasWritten
        /\ (batchFile' # batchFile /\ phase = "built") =>
              /\ lastCall'.op = "writeToFile" /\ lastCall'.raised = ""
              /\ LET dir == DirOf(batchFile')
                     name == NameOf(lastCall'.project)
                 IN  { batchFile', dir, dir \o <<name \o ".pts">>,
                       dir \o <<name \o ".mat">>, dir \o <<name \o ".rad">>,
                       dir \o <<"glazing.rad">> } \subseteq DOMAIN fs'
        /\ (lastCall.op = "writeToFile" /\ lastCall.raised # "" /\ ~hasWritten
            /\ lastCall'.op = "run") =>
              /\ lastCall'.raised = "Exception"
              /\ ~lastCall'.started ]_vars

\* writeToFile() has failed writing the script on a recipe that has a script
\* from an earlier call for another project.
C10_Witness ==
    /\ lastCall.op = "writeToFile"
    /\ lastCall.raised = "IOError"
    /\ batchFile # NoPath
    /\ NameOf(DirOf(DirOf(batchFile))) # NameOf(lastCall.project)
    /\ \E p \in DOMAIN fs : NameOf(p) = "rfluxSky.rad" /\ DirOf(p) # DirOf(batchFile)

\* The path each file-writing line of a script declares as its output, in
\* script order, resolved against the directory the script changes into.
DeclaredOutputs(content) ==
    [i \in 1..Len(StageLines(content)) |->
        Join(WorkDir(content), StageLines(content)[i].out)]

\* The files of the scene that writeToFile exports before the script runs:
\* points, material, geometry and the aperture file glazing.rad.
SceneInputs(n) == { n.pointsFile, n.matFile, n.geoFile, n.glssPath }

\* C11 as claimed: the script a successful writeToFile() leaves declares four
\* outputs (inverted glazing, view matrix, daylight matrix, illuminance) that
\* are pairwise distinct, and none of them is the points, material, geometry
\* or glazing.rad file of the scene, whatever the project name.
C11_OutputsApartFromInputs ==
    (lastCall.op = "writeToFile" /\ lastCall.raised = "") =>
        LET outs == DeclaredOutputs(fs[batchFile])
            n == Names(lastCall.target, lastCall.project, subFolder)
        IN  /\ Len(outs) = 4
            /\ \A i, j \in 1..4 : i # j => outs[i] # outs[j]
            /\ \A i \in 1..4 : outs[i] \notin SceneInputs(n)

\* The parameter values a stage line carries, without the attributes of
\* the command itself.
ParOf(line) == [line.par EXCEPT !.c = 0, !.invert = FALSE]

\* C12: a writeToFile() step leaves the recipe's radianceParameters as
\* __init__ set them (bounces 6, divisions 4096, limit weight 0.001,
\* irradiance on), and in the script of a step that succeeds the view-matrix
\* line carries exactly the values set for it (bounces 10, divisions 65536,
\* limit weight 1E-5, irradiance on) and the daylight-matrix line exactly the
\* values set for it (bounces 2, divisions 1024, limit weight 1E-7, nothing
\* taken over from the view-matrix stage).
C12_StagesOwnTheirParameters ==
    [][ lastCall'.op = "writeToFile" =>
            /\ radianceParameters' = radianceParameters
            /\ radianceParameters' =
                  [NoPar EXCEPT !.I = TRUE, !.aa = "0.1", !.ad = 4096,
                                !.ab = 6, !.lw = "0.001"]
            /\ lastCall'.raised = "" =>
                  LET st == StageLines(fs'[batchFile'])
                  IN  /\ ParOf(st[2]) =
                            [NoPar EXCEPT !.I = TRUE, !.aa = "0.1", !.ab = 10,
                                          !.ad = 65536, !.lw = "1E-5"]
                      /\ ParOf(st[3]) =
                            [NoPar EXCEPT !.aa = "0.1", !.ad = 1024, !.ab = 2,
                                          !.lw = "1E-7"] ]_vars

\* writeToFile() has succeeded for the second time on one recipe: the
\* script's two matrix lines carry different bounces and the recipe's
\* parameters carry a third value.
C12_Witness ==
    /\ lastCall.op = "writeToFile"
    /\ lastCall.raised = ""
    /\ lastCall.again
    /\ StageLines(fs[batchFile])[2].par.ab = 10
    /\ StageLines(fs[batchFile])[3].par.ab = 2
    /\ radianceParameters.ab = 6

\* C13 as claimed: whenever the recipe is Calculated, its result-file list
\* is the one path illuminance.ill in the directory of the batch script the
\* recipe currently records.
C13_ResultsFollowCurrentScript ==
    isCalculated =>
        resultsFile = << Join(DirOf(batchFile), <<"illuminance.ill">>) >>

\* The files a stage line reads: its sender (unless standard input), its
\* receiver, its points file and its input files.  The transmission matrix
\* of the combination stage is left out: it is the material's own xml file,
\* which exists before the recipe does.
Reads(line) ==
    (({ line.sender, line.receiver, line.points } \cup
      { line.inputs[i] : i \in 1..Len(line.inputs) })
     \ { NoPath, <<"-">> })
    \ { <<o.xmlfile>> : o \in { Wall, GlzA, GlzB } }

\* The files a writeToFile() that succeeds has written itself.
WrittenByWrite(n, hb) ==
    UNION { WriteSteps(n, hb, "none")[i].files : i \in 1..10 }

\* C14 as claimed: in the script a successful writeToFile() leaves, every
\* file a stage reads is written by writeToFile() or is the output of an
\* earlier stage; the daylight-matrix stage's sender is the file the
\* transform stage writes; and the combination stage's second and third
\* inputs are the outputs of the view-matrix and daylight-matrix stages.
C14_StageInputsExist ==
    (lastCall.op = "writeToFile" /\ lastCall.raised = "") =>
        LET c == fs[batchFile]
            st == StageLines(c)
            At(p) == Join(WorkDir(c), p)
            n == Names(lastCall.target, lastCall.project, subFolder)
        IN  /\ \A i \in 1..Len(st) : \A p \in Reads(st[i]) :
                  \/ At(p) \in WrittenByWrite(n, hbObjects)
                  \/ \E j \in 1..(i - 1) : At(st[j].out) = At(p)
            /\ At(st[3].sender) = At(st[1].out)
            /\ st[4].inputs[2] = st[2].out
            /\ st[4].inputs[3] = st[3].out

\* The files the stages of a script that call program prog write.
OutputsOf(content, prog) ==
    LET st == StageLines(content)
    IN  { Join(WorkDir(content), st[i].out) :
            i \in { j \in 1..Len(st) : st[j].prog = prog } }

C16_ResultIsCombinationOutput ==
    (lastCall.op = "run" /\ lastCall.exit # "") =>
        /\ OutputsOf(fs[batchFile], "dctimestep") = { resultsFile[1] }
        /\ resultsFile[1] = WorkDir(fs[batchFile]) \o <<"illuminance.ill">>
        /\ lastCall.exit = "0" => resultsFile[1] \in DOMAIN fs

\* run(debug=True) has returned with exit code 0 on a recipe with a
\* sub-folder of its own, after a script for another project had been run.
C16_Witness ==
    /\ lastCall.op = "run"
    /\ lastCall.exit = "0"
    /\ lastCall.debug
    /\ subFolder = "tp2"
    /\ resultsFile[1] \in DOMAIN fs
    /\ \E p \in DOMAIN fs : /\ Len(p) > 3
                             /\ NameOf(p) = "illuminance.ill"
                             /\ p # resultsFile[1]

\* A points file whose every line holds exactly six numbers.
WellFormed(file) == \A i \in 1..Len(file) : Len(StrSplit(file[i])) = 6

\* C17 as claimed: a fromPointsFile() that returns has handed on, for a
\* well-formed file of N lines, N positions and N directions that are the
\* first three and the last three numbers of the file's lines, in file
\* order; on a malformed file it raises.
C17_GridIsThePointsFile ==
    lastCall.op = "fromPointsFile" =>
        IF WellFormed(lastCall.file)
        THEN lastCall.raised = "" =>
               /\ lastCall.pointGroups =
                     [i \in 1..Len(lastCall.file) |->
                        SliceTo(StrSplit(lastCall.file[i]), 3)]
               /\ lastCall.vectorGroups =
                     [i \in 1..Len(lastCall.file) |->
                        SliceFrom(StrSplit(lastCall.file[i]), 3)]
        ELSE lastCall.raised # ""

\* C18: the life cycle only moves forward: a recipe that is Calculated has
\* a batch script recorded and a writeToFile() completed; no step clears a
\* recorded batch script; and no step takes Calculated away.
C18_LifecycleMovesForward ==
    [][ /\ isCalculated' => (batchFile' # NoPath /\ hasWritten')
        /\ batchFile # NoPath => batchFile' # NoPath
        /\ isCalculated => isCalculated' ]_vars

\* On a Calculated recipe a writeToFile() for another project has failed
\* after results() had been loaded: the recipe is still Calculated and
\* still records the script it ran.
C18_Witness ==
    /\ lastCall.op = "writeToFile"
    /\ lastCall.raised # ""
    /\ isCalculated
    /\ loaderFiles # <<>>
    /\ batchFile # NoPath
    /\ NameOf(DirOf(DirOf(batchFile))) # NameOf(lastCall.project)

=============================================================================
